---- MODULE Spec2Model ----
(***************************************************************************)
(* Push2Talk USB HID (v0.3): a two-button keyboard emulator.  The talk     *)
(* button sends the keyboard sequence of the selected profile on its press *)
(* and release edges, the config button selects the next profile and saves *)
(* it in the EEPROM.  One action per run of setup(), per iteration of      *)
(* loop() and per power cycle of the board.                                *)
(***************************************************************************)
EXTENDS Integers, Sequences, FiniteSets, TLC

VARIABLES pc,            \* "boot": before setup(); "loop": between two iterations of loop()
          eeprom,        \* the byte stored at EE_ADDR
          sequence,      \* int sequence: the selected keyboard sequence
          p2t_button,    \* Bounce p2t_button
          conf_button,   \* Bounce conf_button
          kb,            \* the Keyboard object's report buffer
          calls,         \* the calls made by the last action, in program order
          reports,       \* the keyboard reports the host received during the last action
          last,          \* what the last action was and the selector before it
          adv_hist,      \* the selector before each of the last (up to SEQ_TOTAL) advances
          talk_prev,     \* the dispatch before the last action's, since power-on (SpecTalk)
          raw            \* the raw pin of one watched button and its bounce burst (SpecPins)

vars == <<pc, eeprom, sequence, p2t_button, conf_button, kb, calls, reports, last, adv_hist,
          talk_prev, raw>>

-----------------------------------------------------------------------------
(* Compile-time constants of the sketch. *)

SEQ_TOTAL == 4
EE_ADDR == 0
\* The time within which the transitions of one bounce burst fall (ms).
BurstSpan == 5

\* Variant of T_DEBOUNCE: an interval shorter than half a bounce burst.
T_DEBOUNCE_short == BurstSpan \div 2

T_DEBOUNCE == 10
t_min_pressed == 100

(* Key and modifier codes of the keyboard library, kept symbolic. *)
MODIFIERKEY_CTRL == "MODIFIERKEY_CTRL"
MODIFIERKEY_ALT == "MODIFIERKEY_ALT"
MODIFIERKEY_GUI == "MODIFIERKEY_GUI"
KEY_M == "KEY_M"
KEY_F4 == "KEY_F4"
KEY_C == "KEY_C"
KEY_V == "KEY_V"
KEYPAD_PLUS == "KEYPAD_PLUS"
NONE == "0"

(* The values of one EEPROM cell (uint8_t). *)
Byte == 0..255
ToByte(x) == x % 256

-----------------------------------------------------------------------------
(* Bounds of the model. *)

\* A debounce interval is divided into this many time slices; the time that
\* passes between two iterations of loop() is a whole number of slices.
Slices == 2

Slice == IF T_DEBOUNCE \div Slices > 0 THEN T_DEBOUNCE \div Slices ELSE 1
TickTimes == {k * Slice : k \in 0..Slices} \cup {T_DEBOUNCE}

\* Elapsed times are only ever compared with the debounce interval.
Cap(t) == IF t >= T_DEBOUNCE THEN T_DEBOUNCE ELSE t

-----------------------------------------------------------------------------
(* One call made by the program: the callee, its arguments, and for a      *)
(* print the text as a sequence of words and separators.                   *)

Call(op, a, b, n, text) == [op |-> op, a |-> a, b |-> b, n |-> n, text |-> text]

set_modifier(m) == Call("set_modifier", m, "", 0, <<>>)
set_key1(k) == Call("set_key1", k, "", 0, <<>>)
send_now == Call("send_now", "", "", 0, <<>>)
delay(ms) == Call("delay", "", "", ms, <<>>)
press(k) == Call("press", k, "", 0, <<>>)
release(k) == Call("release", k, "", 0, <<>>)
print(text) == Call("print", "", "", 0, text)
println(text) == Call("println", "", "", 0, text \o <<"\n">>)
EEPROM_write(addr, v) == Call("EEPROM.write", "", "", ToByte(v), <<>>)
enter(mode, edge) == Call("sequence_switcher", mode, edge, 0, <<>>)

-----------------------------------------------------------------------------
(* The keyboard sequences, one function per profile.  Each returns the     *)
(* calls it makes for the given edge: 'f' falling (press), 'r' rising      *)
(* (release).                                                              *)

send_ctrl_m__ctrl_m(edge) ==
    IF edge = "f" \/ edge = "r"
    THEN << set_modifier(MODIFIERKEY_CTRL), send_now, delay(t_min_pressed),
            set_key1(KEY_M), send_now, delay(t_min_pressed),
            set_modifier(NONE), set_key1(NONE), send_now >>
    ELSE << >>

\* Variant of send_alt_m__alt_m that does not clear the key at the end.
send_alt_m__alt_m_stuck(edge) ==
    IF edge = "f" \/ edge = "r"
    THEN << set_modifier(MODIFIERKEY_ALT), send_now, delay(t_min_pressed),
            set_key1(KEY_M), send_now, delay(t_min_pressed),
            set_modifier(NONE), send_now >>
    ELSE << >>

send_alt_m__alt_m(edge) ==
    IF edge = "f" \/ edge = "r"
    THEN << set_modifier(MODIFIERKEY_ALT), send_now, delay(t_min_pressed),
            set_key1(KEY_M), send_now, delay(t_min_pressed),
            set_modifier(NONE), set_key1(NONE), send_now >>
    ELSE << >>

\* Variant of send_win_f4__win_f4 without the minimum time a key is pressed.
send_win_f4__win_f4_nodelay(edge) ==
    IF edge = "f" \/ edge = "r"
    THEN << set_modifier(MODIFIERKEY_GUI), send_now,
            set_key1(KEY_F4), send_now,
            set_modifier(NONE), set_key1(NONE), send_now >>
    ELSE << >>

send_win_f4__win_f4(edge) ==
    IF edge = "f" \/ edge = "r"
    THEN << set_modifier(MODIFIERKEY_GUI), send_now, delay(t_min_pressed),
            set_key1(KEY_F4), send_now, delay(t_min_pressed),
            set_modifier(NONE), set_key1(NONE), send_now >>
    ELSE << >>

\* Variant of send_ctrl_c__ctrl_v with the two edges exchanged.
send_ctrl_c__ctrl_v_swapped(edge) ==
    (IF edge = "r"
     THEN << set_modifier(MODIFIERKEY_CTRL), send_now, delay(t_min_pressed),
             set_key1(KEY_C), send_now, delay(t_min_pressed),
             set_modifier(NONE), set_key1(NONE), send_now >>
     ELSE << >>)
    \o
    (IF edge = "f"
     THEN << set_modifier(MODIFIERKEY_CTRL), send_now, delay(t_min_pressed),
             set_key1(KEY_V), send_now, delay(t_min_pressed),
             set_modifier(NONE), set_key1(NONE), send_now >>
     ELSE << >>)

\* Variant of send_ctrl_c__ctrl_v that does not look at the edge.
send_ctrl_c__ctrl_v_unfiltered(edge) ==
    << set_modifier(MODIFIERKEY_CTRL), send_now, delay(t_min_pressed),
       set_key1(KEY_C), send_now, delay(t_min_pressed),
       set_modifier(NONE), set_key1(NONE), send_now,
       set_modifier(MODIFIERKEY_CTRL), send_now, delay(t_min_pressed),
       set_key1(KEY_V), send_now, delay(t_min_pressed),
       set_modifier(NONE), set_key1(NONE), send_now >>

send_ctrl_c__ctrl_v(edge) ==
    (IF edge = "f"
     THEN << set_modifier(MODIFIERKEY_CTRL), send_now, delay(t_min_pressed),
             set_key1(KEY_C), send_now, delay(t_min_pressed),
             set_modifier(NONE), set_key1(NONE), send_now >>
     ELSE << >>)
    \o
    (IF edge = "r"
     THEN << set_modifier(MODIFIERKEY_CTRL), send_now, delay(t_min_pressed),
             set_key1(KEY_V), send_now, delay(t_min_pressed),
             set_modifier(NONE), set_key1(NONE), send_now >>
     ELSE << >>)

-----------------------------------------------------------------------------
(* sequence_switcher(mode, edge).  m is the memory it works on:            *)
(* [sequence, eeprom, calls, nocase]; nocase records that a switch found   *)
(* no case for the value of sequence and fell through.                     *)

\* The first switch: announce the selected sequence by typing its name.
announce(seq) ==
    CASE seq = 0 -> << print(<<"Using", " ", "Sequence", " ", "CTRL">>),
                       press(KEYPAD_PLUS), release(KEYPAD_PLUS),
                       print(<<"m", " ", "CTRL">>),
                       press(KEYPAD_PLUS), release(KEYPAD_PLUS),
                       println(<<"m">>) >>
      [] seq = 1 -> << print(<<"Using", " ", "Sequence", " ", "ALT">>),
                       press(KEYPAD_PLUS), release(KEYPAD_PLUS),
                       print(<<"m", " ", "ALT">>),
                       press(KEYPAD_PLUS), release(KEYPAD_PLUS),
                       println(<<"m">>) >>
      [] seq = 2 -> << print(<<"Using", " ", "Sequence", " ", "Windows">>),
                       press(KEYPAD_PLUS), release(KEYPAD_PLUS),
                       print(<<"F4", " ", "Windows">>),
                       press(KEYPAD_PLUS), release(KEYPAD_PLUS),
                       println(<<"F4">>) >>
      [] seq = 3 -> << print(<<"Using", " ", "Sequence", " ", "CTRL">>),
                       press(KEYPAD_PLUS), release(KEYPAD_PLUS),
                       print(<<"c", " ", "CTRL">>),
                       press(KEYPAD_PLUS), release(KEYPAD_PLUS),
                       println(<<"v">>) >>
      [] OTHER -> << >>

\* Variant of execute with the cases of the three-sequence revision.
execute_v02(seq, edge) ==
    CASE seq = 0 -> send_ctrl_m__ctrl_m(edge)
      [] seq = 1 -> send_win_f4__win_f4(edge)
      [] seq = 2 -> send_ctrl_c__ctrl_v(edge)
      [] OTHER -> << >>

\* The second switch: send the keyboard sequence of the selected profile.
execute(seq, edge) ==
    CASE seq = 0 -> send_ctrl_m__ctrl_m(edge)
      [] seq = 1 -> send_alt_m__alt_m(edge)
      [] seq = 2 -> send_win_f4__win_f4(edge)
      [] seq = 3 -> send_ctrl_c__ctrl_v(edge)
      [] OTHER -> << >>

HasCase(seq) == seq \in {0, 1, 2, 3}

\* Variants of permutate with one slip each.
\* The new sequence is saved before it is computed.
permutate_stale(m) ==
    LET next == (m.sequence + 1) % SEQ_TOTAL
    IN  [ sequence |-> next,
          eeprom   |-> ToByte(m.sequence),
          calls    |-> m.calls \o << EEPROM_write(EE_ADDR, m.sequence) >> \o announce(next),
          nocase   |-> m.nocase \/ ~HasCase(next) ]

\* The new sequence is not saved.
permutate_unsaved(m) ==
    LET next == (m.sequence + 1) % SEQ_TOTAL
    IN  [ sequence |-> next,
          eeprom   |-> m.eeprom,
          calls    |-> m.calls \o announce(next),
          nocase   |-> m.nocase \/ ~HasCase(next) ]

\* The increment is not wrapped.
permutate_nowrap(m) ==
    LET next == m.sequence + 1
    IN  [ sequence |-> next,
          eeprom   |-> ToByte(next),
          calls    |-> m.calls \o << EEPROM_write(EE_ADDR, next) >> \o announce(next),
          nocase   |-> m.nocase \/ ~HasCase(next) ]

\* The increment stops at the last sequence instead of wrapping.
permutate_clamped(m) ==
    LET next == IF m.sequence + 1 >= SEQ_TOTAL THEN SEQ_TOTAL - 1 ELSE m.sequence + 1
    IN  [ sequence |-> next,
          eeprom   |-> ToByte(next),
          calls    |-> m.calls \o << EEPROM_write(EE_ADDR, next) >> \o announce(next),
          nocase   |-> m.nocase \/ ~HasCase(next) ]

\* The name typed is that of the sequence left, not of the one selected.
permutate_announce_old(m) ==
    LET next == (m.sequence + 1) % SEQ_TOTAL
    IN  [ sequence |-> next,
          eeprom   |-> ToByte(next),
          calls    |-> m.calls \o << EEPROM_write(EE_ADDR, next) >> \o announce(m.sequence),
          nocase   |-> m.nocase \/ ~HasCase(next) ]

\* The name is typed before the new sequence is saved.
permutate_announce_first(m) ==
    LET next == (m.sequence + 1) % SEQ_TOTAL
    IN  [ sequence |-> next,
          eeprom   |-> ToByte(next),
          calls    |-> m.calls \o announce(next) \o << EEPROM_write(EE_ADDR, next) >>,
          nocase   |-> m.nocase \/ ~HasCase(next) ]

\* mode 'p': sequence = (sequence + 1) % SEQ_TOTAL; EEPROM.write; announce.
permutate(m) ==
    LET incremented == m.sequence + 1
        next == incremented % SEQ_TOTAL
    IN  [ sequence |-> next,
          eeprom   |-> ToByte(next),
          calls    |-> m.calls \o << EEPROM_write(EE_ADDR, next) >> \o announce(next),
          nocase   |-> m.nocase \/ ~HasCase(next) ]

\* Variant of sequence_switcher whose first part is not guarded by the mode.
sequence_switcher_unguarded(mode, edge, m) ==
    LET entered == [m EXCEPT !.calls = @ \o << enter(mode, edge) >>]
        afterP  == permutate(entered)
        afterE  == IF mode = "e"
                   THEN [afterP EXCEPT !.calls = @ \o execute(afterP.sequence, edge),
                                       !.nocase = @ \/ ~HasCase(afterP.sequence)]
                   ELSE afterP
    IN  afterE

sequence_switcher(mode, edge, m) ==
    LET entered == [m EXCEPT !.calls = @ \o << enter(mode, edge) >>]
        afterP  == IF mode = "p" THEN permutate(entered) ELSE entered
        afterE  == IF mode = "e"
                   THEN [afterP EXCEPT !.calls = @ \o execute(afterP.sequence, edge),
                                       !.nocase = @ \/ ~HasCase(afterP.sequence)]
                   ELSE afterP
    IN  afterE

-----------------------------------------------------------------------------
(* The Keyboard object: a report buffer (modifier, key1, the keys held by  *)
(* press()) and the reports sent to the host.  set_* only change the       *)
(* buffer; send_now, press and release send the buffer as a report.        *)

KbIdle == [modifier |-> NONE, key1 |-> NONE, pressed |-> {}]

KbStep(k, c) ==
    CASE c.op = "set_modifier" -> [k EXCEPT !.modifier = c.a]
      [] c.op = "set_key1"     -> [k EXCEPT !.key1 = c.a]
      [] c.op = "press"        -> [k EXCEPT !.pressed = @ \cup {c.a}]
      [] c.op = "release"      -> [k EXCEPT !.pressed = @ \ {c.a}]
      [] OTHER                 -> k

Sends(c) == c.op \in {"send_now", "press", "release"}

RECURSIVE KbRun(_, _)
KbRun(k, cs) == IF cs = << >> THEN k ELSE KbRun(KbStep(k, Head(cs)), Tail(cs))

RECURSIVE KbReports(_, _)
KbReports(k, cs) ==
    IF cs = << >> THEN << >>
    ELSE LET k1 == KbStep(k, Head(cs))
         IN  (IF Sends(Head(cs)) THEN << k1 >> ELSE << >>) \o KbReports(k1, Tail(cs))

\* How many of the calls satisfy Test.
Count(cs, Test(_)) == Cardinality({i \in 1..Len(cs) : Test(cs[i])})

IsSelectNext(c) == c.op = "sequence_switcher" /\ c.a = "p"
IsDispatch(c) == c.op = "sequence_switcher" /\ c.a = "e"
IsPress(c) == IsDispatch(c) /\ c.b = "f"
IsRelease(c) == IsDispatch(c) /\ c.b = "r"
IsSwitcher(c) == c.op = "sequence_switcher"
IsEepromWrite(c) == c.op = "EEPROM.write"

\* The milliseconds the calls spend in delay().
RECURSIVE Delayed(_)
Delayed(cs) ==
    IF cs = << >> THEN 0
    ELSE (IF Head(cs).op = "delay" THEN Head(cs).n ELSE 0) + Delayed(Tail(cs))

-----------------------------------------------------------------------------
(* The debouncer (Bounce2, stable-interval algorithm).  A pin reads TRUE   *)
(* for HIGH (button open, pull-up) and FALSE for LOW (button closed).      *)
(* since is millis() - previous_millis, capped at the debounce interval.   *)

BounceNew == [debounced |-> FALSE, unstable |-> FALSE, changed |-> FALSE, since |-> T_DEBOUNCE]

BounceAttach(pin) == [debounced |-> pin, unstable |-> pin, changed |-> FALSE, since |-> 0]

BounceUpdate(b, pin, dt) ==
    LET elapsed == Cap(b.since + dt)
    IN  IF pin # b.unstable
        THEN [b EXCEPT !.unstable = pin, !.changed = FALSE, !.since = 0]
        ELSE IF elapsed >= T_DEBOUNCE /\ pin # b.debounced
             THEN [b EXCEPT !.debounced = pin, !.changed = TRUE, !.since = 0]
             ELSE [b EXCEPT !.changed = FALSE, !.since = elapsed]

fallingEdge(b) == b.changed /\ ~b.debounced
risingEdge(b) == b.changed /\ b.debounced

\* The clock runs on while the program is busy.
BounceAge(b, ms) == [b EXCEPT !.since = Cap(@ + ms)]

-----------------------------------------------------------------------------
(* State after the globals are constructed, for every content of the       *)
(* EEPROM cell.                                                            *)

\* No dispatch yet since power-on.
NoTalk == [edge |-> "", tap |-> ""]

\* No raw pin is watched.
RawOff == [watch |-> "none", level |-> TRUE, held |-> 0, n |-> 0, span |-> 0,
           edges |-> 0, edged |-> FALSE, glitched |-> FALSE]

Init ==
    /\ pc = "boot"
    /\ eeprom \in Byte
    /\ sequence = 0
    /\ p2t_button = BounceNew
    /\ conf_button = BounceNew
    /\ kb = KbIdle
    /\ calls = << >>
    /\ reports = << >>
    /\ last = [op |-> "init", seq0 |-> 0, ee0 |-> eeprom, warm |-> FALSE, nocase |-> FALSE]
    /\ adv_hist = << >>
    /\ talk_prev = NoTalk
    /\ raw = RawOff

\* Variant of load: the stored byte is taken as it is.
load_raw(stored) == stored

\* The value setup() assigns to sequence.
load(stored) == stored % SEQ_TOTAL

\* Variant of setup() that writes the value it has read back to the EEPROM.
Setup_writeback(pinP2t, pinConf) ==
    /\ pc = "boot"
    /\ pc' = "loop"
    /\ p2t_button' = BounceAttach(pinP2t)
    /\ conf_button' = BounceAttach(pinConf)
    /\ sequence' = load(eeprom)
    /\ eeprom' = ToByte(load(eeprom))
    /\ calls' = << EEPROM_write(EE_ADDR, load(eeprom)) >>
    /\ reports' = << >>
    /\ last' = [op |-> "setup", seq0 |-> last.seq0, ee0 |-> eeprom,
                warm |-> (last.op = "power"), nocase |-> FALSE]
    /\ UNCHANGED <<kb, adv_hist>>

\* setup(): attach the buttons, read the selected sequence from the EEPROM.
Setup(pinP2t, pinConf) ==
    /\ pc = "boot"
    /\ pc' = "loop"
    /\ p2t_button' = BounceAttach(pinP2t)
    /\ conf_button' = BounceAttach(pinConf)
    /\ sequence' = load(eeprom)
    /\ calls' = << >>
    /\ reports' = << >>
    /\ last' = [op |-> "setup", seq0 |-> last.seq0, ee0 |-> eeprom,
                warm |-> (last.op = "power"), nocase |-> FALSE]
    /\ UNCHANGED <<eeprom, kb, adv_hist>>

\* Variant of loop_p2t that looks at the debounced level, not at the edge.
loop_p2t_level(b, m) ==
    LET afterF == IF ~b.debounced THEN sequence_switcher("e", "f", m) ELSE m
    IN  IF risingEdge(b) THEN sequence_switcher("e", "r", afterF) ELSE afterF

\* The push2talk part of loop(): both edges of the talk button execute.
loop_p2t(b, m) ==
    LET afterF == IF fallingEdge(b) THEN sequence_switcher("e", "f", m) ELSE m
    IN  IF risingEdge(b) THEN sequence_switcher("e", "r", afterF) ELSE afterF

\* Variant of loop_conf that acts on the falling edge as well.
loop_conf_both_edges(b, m) ==
    LET afterF == IF fallingEdge(b) THEN sequence_switcher("p", "f", m) ELSE m
    IN  IF risingEdge(b) THEN sequence_switcher("p", "r", afterF) ELSE afterF

\* The config part of loop(): only the rising edge selects the next sequence.
loop_conf(b, m) ==
    IF risingEdge(b) THEN sequence_switcher("p", "r", m) ELSE m

\* The selector before each of the last advances, at most SEQ_TOTAL of them.
Remember(h, seq) ==
    LET all == Append(h, seq)
    IN  IF Len(all) > SEQ_TOTAL THEN Tail(all) ELSE all

\* Variant of loop_body that tests the config button first.
loop_body_conf_first(p2t, conf, m) == loop_p2t(p2t, loop_conf(conf, m))

\* The tests of loop() after the updates: the talk button's edges call
\* sequence_switcher before the config button's rising edge does.
loop_body(p2t, conf, m) == loop_conf(conf, loop_p2t(p2t, m))

\* The memory sequence_switcher works on, at the start of an iteration.
Memory == [sequence |-> sequence, eeprom |-> eeprom, calls |-> << >>, nocase |-> FALSE]

\* One iteration of loop(); dt is the time since the previous iteration ended.
\* The code tests p2t falling, conf falling, p2t rising, conf rising; one
\* update shows at most one edge per button, so the talk button's call comes
\* before the config button's.
Loop(pinP2t, pinConf, dt) ==
    /\ pc = "loop"
    /\ \E p2t \in {BounceUpdate(p2t_button, pinP2t, dt)},
          conf \in {BounceUpdate(conf_button, pinConf, dt)} :
         \E m \in {loop_body(p2t, conf, Memory)} :
           \E busy \in {Delayed(m.calls)} :
             /\ p2t_button' = BounceAge(p2t, busy)
             /\ conf_button' = BounceAge(conf, busy)
             /\ sequence' = m.sequence
             /\ eeprom' = m.eeprom
             /\ calls' = m.calls
             /\ reports' = KbReports(kb, m.calls)
             /\ kb' = KbRun(kb, m.calls)
             /\ last' = [op |-> "tick", seq0 |-> sequence, ee0 |-> eeprom,
                         warm |-> FALSE, nocase |-> m.nocase]
             /\ adv_hist' = IF Count(m.calls, IsSelectNext) > 0
                            THEN Remember(adv_hist, sequence) ELSE adv_hist
    /\ UNCHANGED pc

\* The board loses power and is powered again: the RAM and the objects are
\* constructed anew, the EEPROM keeps its content.
PowerCycle ==
    /\ pc = "loop"
    /\ pc' = "boot"
    /\ sequence' = 0
    /\ p2t_button' = BounceNew
    /\ conf_button' = BounceNew
    /\ kb' = KbIdle
    /\ calls' = << >>
    /\ reports' = << >>
    /\ last' = [op |-> "power", seq0 |-> sequence, ee0 |-> eeprom, warm |-> FALSE, nocase |-> FALSE]
    /\ UNCHANGED <<eeprom, adv_hist>>

\* Every reading of the two pins, every time between two iterations.
Next ==
    \/ \E pinP2t \in BOOLEAN, pinConf \in BOOLEAN :
          Setup(pinP2t, pinConf) /\ UNCHANGED <<talk_prev, raw>>
    \/ \E pinP2t \in BOOLEAN, pinConf \in BOOLEAN, dt \in TickTimes :
          Loop(pinP2t, pinConf, dt) /\ UNCHANGED <<talk_prev, raw>>
    \/ PowerCycle /\ UNCHANGED <<talk_prev, raw>>

Spec == Init /\ [][Next]_vars

-----------------------------------------------------------------------------
(* What the last action did, read from its calls. *)

SelectNexts == Count(calls, IsSelectNext)
Dispatches == Count(calls, IsDispatch)
EepromWrites == Count(calls, IsEepromWrite)
Profiles == 0..(SEQ_TOTAL - 1)

-----------------------------------------------------------------------------
(* C1: boot load.  For every byte v stored at the selector's address,      *)
(* when setup() has completed the selected sequence is v mod SEQ_TOTAL,    *)
(* lies in 0..SEQ_TOTAL-1, and the program has entered the main loop.      *)
C1_BootLoad ==
    last.op = "setup" =>
        /\ pc = "loop"
        /\ sequence = last.ee0 % SEQ_TOTAL
        /\ sequence \in Profiles

C1_Witness == last.op = "setup" /\ last.ee0 = 254 /\ sequence = 2

(* C2: advance.  One select-next sets the sequence to (i+1) mod SEQ_TOTAL, *)
(* i the sequence before it, and when it has finished the EEPROM cell      *)
(* reads back as the new sequence.                                         *)
C2_Advance ==
    (last.op = "tick" /\ SelectNexts = 1) =>
        /\ last.seq0 \in Profiles
        /\ sequence = (last.seq0 + 1) % SEQ_TOTAL
        /\ eeprom = sequence

C2_Witness == last.op = "tick" /\ SelectNexts = 1 /\ last.seq0 = 3 /\ sequence = 0 /\ eeprom = 0

(* C3: selector invariant.  After boot, whatever byte was stored and       *)
(* whatever the buttons did, the sequence is in 0..SEQ_TOTAL-1, and no     *)
(* switch of sequence_switcher has fallen through without a case.          *)
C3_SelectorInvariant ==
    /\ sequence \in Profiles
    /\ ~last.nocase

C3_Witness ==
    /\ last.op = "tick" /\ last.ee0 = 255
    /\ Dispatches = 1 /\ SelectNexts = 1
    /\ sequence = 0

(* C4: power-cycle recovery.  Between two iterations of loop() the stored  *)
(* byte modulo SEQ_TOTAL is the sequence in memory, and setup() after a    *)
(* power cycle selects the sequence that was selected before it.           *)
C4_PowerCycleRecovery ==
    /\ pc = "loop" => eeprom % SEQ_TOTAL = sequence
    /\ (last.op = "setup" /\ last.warm) => sequence = last.seq0

C4_Witness ==
    /\ last.op = "setup" /\ last.warm
    /\ Len(adv_hist) = 2 /\ adv_hist[1] = 3
    /\ sequence = 1

-----------------------------------------------------------------------------
(* The talk button's part of the last iteration: its calls come first, up  *)
(* to the call that selects the next sequence.                             *)

SelectAt ==
    IF SelectNexts = 0 THEN Len(calls) + 1
    ELSE CHOOSE i \in 1..Len(calls) :
            IsSelectNext(calls[i]) /\ \A j \in 1..(i - 1) : ~IsSelectNext(calls[j])

TalkCalls == SubSeq(calls, 1, SelectAt - 1)
TalkReports == SubSeq(reports, 1, Count(TalkCalls, Sends))
TalkEdge == IF fallingEdge(p2t_button) THEN "f" ELSE "r"
OtherEdge == IF TalkEdge = "f" THEN "r" ELSE "f"

Report(m, k) == [modifier |-> m, key1 |-> k, pressed |-> {}]
Tap(m, k) == << Report(m, NONE), Report(m, k), Report(NONE, NONE) >>
HasKey(rs, k) == \E i \in 1..Len(rs) : rs[i].key1 = k

(* C5: edge mapping of the main loop.  In one iteration a press edge of    *)
(* the talk button makes exactly one dispatch('f') for the sequence        *)
(* selected at that moment, a release edge exactly one dispatch('r'), a    *)
(* release edge of the config button exactly one select-next, and a press  *)
(* edge of the config button nothing: no call, no change of the sequence,  *)
(* no EEPROM write.                                                        *)
C5_EdgeMapping ==
    last.op = "tick" =>
        /\ Count(calls, IsPress) = (IF fallingEdge(p2t_button) THEN 1 ELSE 0)
        /\ Count(calls, IsRelease) = (IF risingEdge(p2t_button) THEN 1 ELSE 0)
        /\ SelectNexts = (IF risingEdge(conf_button) THEN 1 ELSE 0)
        /\ Count(calls, IsSwitcher) = Dispatches + SelectNexts
        /\ Dispatches = 1 =>
              /\ calls[1] = enter("e", TalkEdge)
              /\ Tail(TalkCalls) = execute(last.seq0, TalkEdge)
        /\ fallingEdge(conf_button) =>
              /\ calls = TalkCalls
              /\ EepromWrites = 0
              /\ sequence = last.seq0
              /\ eeprom = last.ee0
        /\ (~p2t_button.changed /\ ~risingEdge(conf_button)) =>
              /\ calls = << >>
              /\ reports = << >>

C5_Witness ==
    /\ last.op = "tick"
    /\ fallingEdge(conf_button) /\ fallingEdge(p2t_button)
    /\ Dispatches = 1 /\ SelectNexts = 0

(* C6: edge symmetry of the profiles.  With sequence 3 selected, a press   *)
(* dispatch sends the Ctrl+C tap and no report with V, a release dispatch  *)
(* the Ctrl+V tap and no report with C; with sequence 0, 1 or 2 selected,  *)
(* the reports a dispatch sends for one edge are the reports the profile   *)
(* sends for the other edge.                                               *)
C6_EdgeSymmetry ==
    (last.op = "tick" /\ Dispatches = 1) =>
        /\ (last.seq0 = 3 /\ TalkEdge = "f") =>
              /\ TalkReports = Tap(MODIFIERKEY_CTRL, KEY_C)
              /\ ~HasKey(TalkReports, KEY_V)
        /\ (last.seq0 = 3 /\ TalkEdge = "r") =>
              /\ TalkReports = Tap(MODIFIERKEY_CTRL, KEY_V)
              /\ ~HasKey(TalkReports, KEY_C)
        /\ last.seq0 \in {0, 1, 2} =>
              /\ TalkReports # << >>
              /\ TalkReports = KbReports(KbIdle, execute(last.seq0, OtherEdge))

C6_Witness ==
    /\ last.op = "tick" /\ Dispatches = 1
    /\ last.seq0 = 3 /\ TalkEdge = "r"
    /\ HasKey(reports, KEY_V)

-----------------------------------------------------------------------------
(* The table of profiles the sketch is meant to implement, and the names   *)
(* its announcements use for modifiers and keys.                           *)

ProfileModifier(i) ==
    CASE i = 0 -> MODIFIERKEY_CTRL
      [] i = 1 -> MODIFIERKEY_ALT
      [] i = 2 -> MODIFIERKEY_GUI
      [] i = 3 -> MODIFIERKEY_CTRL

ProfileKey(i, edge) ==
    CASE i = 0 -> KEY_M
      [] i = 1 -> KEY_M
      [] i = 2 -> KEY_F4
      [] i = 3 -> IF edge = "f" THEN KEY_C ELSE KEY_V

ModifierName(m) ==
    CASE m = MODIFIERKEY_CTRL -> "CTRL"
      [] m = MODIFIERKEY_ALT -> "ALT"
      [] m = MODIFIERKEY_GUI -> "Windows"
      [] OTHER -> "?"

KeyName(k) ==
    CASE k = KEY_M -> "m"
      [] k = KEY_F4 -> "F4"
      [] k = KEY_C -> "c"
      [] k = KEY_V -> "v"
      [] OTHER -> "?"

\* What the calls type on the host: the printed words, and "+" for KEYPAD_PLUS.
RECURSIVE Typed(_)
Typed(cs) ==
    IF cs = << >> THEN << >>
    ELSE LET c == Head(cs)
         IN  (CASE c.op \in {"print", "println"} -> c.text
                [] c.op = "press" /\ c.a = KEYPAD_PLUS -> << "+" >>
                [] OTHER -> << >>)
             \o Typed(Tail(cs))

\* The shortcuts a typed text names: the words on both sides of each "+".
Shortcuts(t) ==
    LET at == {i \in 2..(Len(t) - 1) : t[i] = "+"}
        nth(S, n) == CHOOSE i \in S : Cardinality({j \in S : j < i}) = n - 1
    IN  [n \in 1..Cardinality(at) |-> << t[nth(at, n) - 1], t[nth(at, n) + 1] >>]

\* The modifier and key a profile's calls hold down together.
Emitted(i, edge) ==
    LET rs == KbReports(KbIdle, execute(i, edge))
    IN  IF Len(rs) >= 2 THEN << rs[2].modifier, rs[2].key1 >> ELSE << NONE, NONE >>

(* C7: profile table in dispatch order.  A talk edge with sequence i       *)
(* selected sends the shortcut of row i of the table (0: Ctrl+M, 1: Alt+M, *)
(* 2: GUI+F4, 3: Ctrl+C on press and Ctrl+V on release), and the text      *)
(* select-next types for the new sequence names, for press and for         *)
(* release, the shortcut a dispatch sends for that sequence.               *)
C7_ProfileTable ==
    last.op = "tick" =>
        /\ Dispatches = 1 =>
              TalkReports = Tap(ProfileModifier(last.seq0), ProfileKey(last.seq0, TalkEdge))
        /\ SelectNexts = 1 =>
              /\ sequence \in Profiles
              /\ Shortcuts(Typed(calls)) =
                    << << ModifierName(ProfileModifier(sequence)), KeyName(ProfileKey(sequence, "f")) >>,
                       << ModifierName(ProfileModifier(sequence)), KeyName(ProfileKey(sequence, "r")) >> >>
              /\ Shortcuts(Typed(calls)) =
                    << << ModifierName(Emitted(sequence, "f")[1]), KeyName(Emitted(sequence, "f")[2]) >>,
                       << ModifierName(Emitted(sequence, "r")[1]), KeyName(Emitted(sequence, "r")[2]) >> >>

C7_Witness ==
    /\ last.op = "tick"
    /\ Dispatches = 1 /\ last.seq0 = 1
    /\ SelectNexts = 1 /\ sequence = 2
    /\ Shortcuts(Typed(calls)) = << << "Windows", "F4" >>, << "Windows", "F4" >> >>

(* C8: tap step order.  The calls of every dispatch are, in this order:    *)
(* set a modifier, send, delay of at least t_min_pressed, set a key, send, *)
(* delay of at least t_min_pressed, clear the modifier, clear the key,     *)
(* send; the host receives three reports: the modifier alone, the modifier *)
(* with the key, nothing held.                                             *)
TapOps == << "set_modifier", "send_now", "delay", "set_key1", "send_now", "delay",
             "set_modifier", "set_key1", "send_now" >>

C8_TapStepOrder ==
    (last.op = "tick" /\ Dispatches = 1) =>
        LET t == Tail(TalkCalls)
        IN  /\ Len(t) = Len(TapOps)
            /\ \A i \in 1..Len(TapOps) : t[i].op = TapOps[i]
            /\ t[1].a # NONE /\ t[4].a # NONE
            /\ t[3].n >= t_min_pressed /\ t[6].n >= t_min_pressed
            /\ t[7].a = NONE /\ t[8].a = NONE
            /\ TalkReports = Tap(t[1].a, t[4].a)

C8_Witness ==
    /\ last.op = "tick" /\ Dispatches = 1 /\ last.seq0 = 2
    /\ TalkReports = Tap(MODIFIERKEY_GUI, KEY_F4)
    /\ Delayed(calls) = 2 * t_min_pressed

(* C9: cyclic law.  SEQ_TOTAL select-nexts in a row, with any dispatches   *)
(* between them, bring the sequence and the stored byte back to the        *)
(* sequence i they started from, and fewer than SEQ_TOTAL of them never    *)
(* bring the sequence back to i.                                           *)
C9_CyclicLaw ==
    (pc = "loop" /\ adv_hist # << >>) =>
        /\ Len(adv_hist) = SEQ_TOTAL => (sequence = adv_hist[1] /\ eeprom = adv_hist[1])
        /\ Len(adv_hist) < SEQ_TOTAL => sequence # adv_hist[1]
        /\ \A k \in 2..Len(adv_hist) : adv_hist[k] # adv_hist[1]

C9_Witness ==
    /\ pc = "loop" /\ last.op = "tick" /\ SelectNexts = 1
    /\ Len(adv_hist) = SEQ_TOTAL /\ adv_hist[1] = 2
    /\ sequence = 2 /\ eeprom = 2

(* C10: only advance changes the selector.  An iteration without           *)
(* select-next, whatever it dispatches, leaves the sequence and the stored *)
(* byte as they were; setup() and a power cycle leave the stored byte as   *)
(* it was; the EEPROM is written once per select-next and never otherwise. *)
C10_OnlyAdvanceMutates ==
    /\ EepromWrites = SelectNexts
    /\ SelectNexts = 0 =>
          /\ eeprom = last.ee0
          /\ last.op = "tick" => sequence = last.seq0

C10_Witness ==
    /\ last.op = "tick" /\ Dispatches = 1 /\ SelectNexts = 0
    /\ last.ee0 = 255 /\ eeprom = 255 /\ sequence = 3

-----------------------------------------------------------------------------
\* The words w appear in the text t, one after the other.
Contains(t, w) == \E i \in 1..(Len(t) - Len(w) + 1) : SubSeq(t, i, i + Len(w) - 1) = w

(* C12 as stated: with sequence 3 selected, a press and release of the     *)
(* config button selects sequence 0, stores 0, and types the label         *)
(* "CTRL+m/CTRL+m"; the press edge leaves the sequence as it is.           *)
C12_SelectScenario_AsStated ==
    /\ (last.op = "tick" /\ fallingEdge(conf_button)) => sequence = last.seq0
    /\ (last.op = "tick" /\ SelectNexts = 1 /\ last.seq0 = 3) =>
          /\ sequence = 0
          /\ eeprom = 0
          /\ Contains(Typed(calls), << "CTRL", "+", "m", "/", "CTRL", "+", "m" >>)

(* C12, amended: with sequence 3 selected, a press and release of the      *)
(* config button selects sequence 0 on the release edge, not on the press  *)
(* edge, stores 0, and types "Using Sequence CTRL+m CTRL+m" and a newline: *)
(* the two shortcuts are separated by a space, and no "/" is typed.        *)
C12_SelectScenario ==
    /\ (last.op = "tick" /\ fallingEdge(conf_button)) => sequence = last.seq0
    /\ (last.op = "tick" /\ SelectNexts = 1 /\ last.seq0 = 3) =>
          /\ risingEdge(conf_button)
          /\ sequence = 0
          /\ eeprom = 0
          /\ Typed(calls) = << "Using", " ", "Sequence", " ", "CTRL", "+", "m", " ",
                               "CTRL", "+", "m", "\n" >>
          /\ ~Contains(Typed(calls), << "/" >>)

C12_Witness ==
    /\ last.op = "tick" /\ SelectNexts = 1 /\ last.seq0 = 3 /\ last.ee0 = 3
    /\ ~p2t_button.changed
    /\ sequence = 0 /\ eeprom = 0
    /\ Contains(Typed(calls), << "CTRL", "+", "m", " ", "CTRL", "+", "m" >>)

(* C15: no stuck keys.  Between two iterations of loop() the keyboard      *)
(* buffer holds no modifier and no key, the last report sent to the host   *)
(* is the empty one, and every press of KEYPAD_PLUS is followed at once by *)
(* its release.                                                            *)
C15_NoStuckKeys ==
    /\ kb = KbIdle
    /\ reports # << >> => reports[Len(reports)] = Report(NONE, NONE)
    /\ \A i \in 1..Len(calls) :
          calls[i].op = "press" =>
              /\ i < Len(calls)
              /\ calls[i + 1] = release(calls[i].a)

C15_Witness ==
    /\ last.op = "tick" /\ Dispatches = 1 /\ SelectNexts = 1
    /\ Count(calls, LAMBDA c : c.op = "press") = 2
    /\ Len(reports) = 7
    /\ kb = KbIdle

(* C16: persist before announce.  In a select-next the EEPROM is written,  *)
(* with the sequence then announced, before the first call that types any  *)
(* part of the name.                                                       *)
Types(c) == c.op \in {"print", "println", "press", "release"}

C16_PersistBeforeAnnounce ==
    (last.op = "tick" /\ SelectNexts = 1) =>
        /\ Count(calls, Types) > 0
        /\ \A i \in 1..Len(calls) :
              Types(calls[i]) =>
                  \E j \in 1..(i - 1) :
                      /\ IsEepromWrite(calls[j])
                      /\ calls[j].n = sequence
                      /\ j > SelectAt
        /\ eeprom = sequence

C16_Witness ==
    /\ last.op = "tick" /\ SelectNexts = 1 /\ last.ee0 = 255
    /\ IsEepromWrite(calls[SelectAt + 1]) /\ calls[SelectAt + 1].n = 0
    /\ Types(calls[SelectAt + 2])

(* C17: same-tick ordering.  When one iteration sees an edge of the talk   *)
(* button and a release edge of the config button, it first dispatches the *)
(* talk edge with the sequence selected before the iteration, and only     *)
(* then advances and stores the sequence.                                  *)
C17_SameTickOrdering ==
    (last.op = "tick" /\ p2t_button.changed /\ risingEdge(conf_button)) =>
        /\ Dispatches = 1 /\ SelectNexts = 1
        /\ calls[1] = enter("e", TalkEdge)
        /\ Tail(TalkCalls) = execute(last.seq0, TalkEdge)
        /\ TalkReports = Tap(ProfileModifier(last.seq0), ProfileKey(last.seq0, TalkEdge))
        /\ \A i \in 1..Len(calls) : IsEepromWrite(calls[i]) => i > SelectAt
        /\ sequence = (last.seq0 + 1) % SEQ_TOTAL
        /\ eeprom = sequence

C17_Witness ==
    /\ last.op = "tick" /\ fallingEdge(p2t_button) /\ risingEdge(conf_button)
    /\ last.seq0 = 2 /\ sequence = 3
    /\ TalkReports = Tap(MODIFIERKEY_GUI, KEY_F4)

(* C18: boot never writes storage.  setup() leaves the stored byte as it   *)
(* is; until the first select-next the byte is the one the board was first *)
(* powered on with, in range or not; from the first select-next on it is   *)
(* in 0..SEQ_TOTAL-1 and, between iterations, equal to the sequence.       *)
C18_BootNeverWrites ==
    /\ last.op = "setup" => (eeprom = last.ee0 /\ EepromWrites = 0)
    /\ adv_hist = << >> => eeprom = last.ee0
    /\ adv_hist # << >> =>
          /\ eeprom \in Profiles
          /\ pc = "loop" => eeprom = sequence

C18_Witness ==
    /\ last.op = "tick" /\ Dispatches = 1
    /\ adv_hist = << >>
    /\ last.warm = FALSE /\ eeprom = 255 /\ sequence = 3

-----------------------------------------------------------------------------
(* The program with the succession of its dispatches observed: talk_prev   *)
(* is the dispatch made before the last action's, since power-on.  The     *)
(* pins read anything at every update, so whatever the raw pins do between *)
(* two updates, or while loop() is blocked in delay(), is covered.         *)

\* Stored bytes the board is powered on with here: one in range, one not.
TalkBytes == {0, 255}

\* The dispatch of the last action: its edge, and C or V if it tapped one.
TalkNow ==
    [edge |-> TalkEdge,
     tap  |-> IF HasKey(TalkReports, KEY_C) THEN KEY_C
              ELSE IF HasKey(TalkReports, KEY_V) THEN KEY_V ELSE NONE]

Noted == IF Dispatches > 0 THEN TalkNow ELSE talk_prev

InitTalk ==
    /\ pc = "boot"
    /\ eeprom \in TalkBytes
    /\ sequence = 0
    /\ p2t_button = BounceNew
    /\ conf_button = BounceNew
    /\ kb = KbIdle
    /\ calls = << >>
    /\ reports = << >>
    /\ last = [op |-> "init", seq0 |-> 0, ee0 |-> eeprom, warm |-> FALSE, nocase |-> FALSE]
    /\ adv_hist = << >>
    /\ talk_prev = NoTalk
    /\ raw = RawOff

TalkSetup(pinP2t, pinConf) ==
    /\ Setup(pinP2t, pinConf)
    /\ talk_prev' = NoTalk
    /\ UNCHANGED raw

TalkLoop(pinP2t, pinConf, dt) ==
    /\ Loop(pinP2t, pinConf, dt)
    /\ talk_prev' = Noted
    /\ UNCHANGED raw

TalkPowerCycle ==
    /\ PowerCycle
    /\ talk_prev' = NoTalk
    /\ UNCHANGED raw

NextTalk ==
    \/ \E pinP2t \in BOOLEAN, pinConf \in BOOLEAN : TalkSetup(pinP2t, pinConf)
    \/ \E pinP2t \in BOOLEAN, pinConf \in BOOLEAN, dt \in TickTimes : TalkLoop(pinP2t, pinConf, dt)
    \/ TalkPowerCycle

SpecTalk == InitTalk /\ [][NextTalk]_vars

(* C11: boot scenario.  Powered on with the stored byte 255, setup()       *)
(* selects sequence 3; as long as nothing is selected, a press edge of the *)
(* talk button sends the Ctrl+C tap, and the release edge that follows a   *)
(* press sends the Ctrl+V tap.                                             *)
C11_BootScenario ==
    /\ (last.op = "setup" /\ last.ee0 = 255) => sequence = 3
    /\ (last.op = "tick" /\ last.ee0 = 255 /\ Dispatches = 1) =>
          /\ last.seq0 = 3
          /\ TalkEdge = "f" => TalkReports = Tap(MODIFIERKEY_CTRL, KEY_C)
          /\ (TalkEdge = "r" /\ talk_prev.edge = "f") =>
                /\ talk_prev.tap = KEY_C
                /\ TalkReports = Tap(MODIFIERKEY_CTRL, KEY_V)

C11_Witness ==
    /\ last.op = "tick" /\ last.ee0 = 255 /\ ~last.warm
    /\ Dispatches = 1 /\ TalkEdge = "r"
    /\ talk_prev = [edge |-> "f", tap |-> KEY_C]
    /\ TalkReports = Tap(MODIFIERKEY_CTRL, KEY_V)

(* C19: alternating dispatches.  One iteration never dispatches both a     *)
(* press and a release; between power-on and power-off a press dispatch is *)
(* followed by a release dispatch and a release by a press, whatever the   *)
(* pins read at the updates; so of two successive dispatches that tap C or *)
(* V, one taps C and the other V.                                          *)
C19_Alternation ==
    last.op = "tick" =>
        /\ Count(calls, IsPress) + Count(calls, IsRelease) <= 1
        /\ (Dispatches = 1 /\ talk_prev # NoTalk) =>
              /\ TalkNow.edge # talk_prev.edge
              /\ (TalkNow.tap # NONE /\ talk_prev.tap # NONE) => TalkNow.tap # talk_prev.tap

C19_Witness ==
    /\ last.op = "tick" /\ Dispatches = 1
    /\ talk_prev = [edge |-> "r", tap |-> KEY_V]
    /\ TalkNow = [edge |-> "f", tap |-> KEY_C]
    /\ Delayed(calls) = 2 * t_min_pressed

-----------------------------------------------------------------------------
(* The program with the raw pin of one button watched between the updates. *)
(* raw.level is the pin, raw.held the time it has been at that level,      *)
(* raw.edged whether its debouncer has reported an edge since the pin came *)
(* to that level, raw.glitched whether the last step reverted a transition *)
(* younger than the debounce interval for which an edge had been reported. *)
(* raw.n, raw.span and raw.edges follow one bounce burst: the transitions  *)
(* counted so far, the time since the first of them, and the edges the     *)
(* debouncer has reported since.                                           *)
(*                                                                         *)
(* loop() takes well under a millisecond when it sends nothing, so between *)
(* two such iterations the watched pin changes at most once and every      *)
(* transition is sampled.  An iteration that sends a tap is blocked in     *)
(* delay() for 2 * t_min_pressed: the pin does anything meanwhile.         *)

\* The time between two iterations that are not blocked.
DenseTimes == {0, Slice}

SpanCap(t) == IF t > BurstSpan THEN BurstSpan + 1 ELSE t

Toggled(level, k) == IF k % 2 = 0 THEN level ELSE ~level

\* The debouncer of the watched button.
Watched(w, p2t, conf) == IF w = "p2t" THEN p2t ELSE conf

\* The button is in the state its debouncer reports: no edge is owed.
AtRest(b, level) == b.debounced = level

\* What the watched pin does between two samples: nothing, one transition,
\* or one transition taken as the first of a bounce burst.
Moves == {"stay", "change", "bounce"}

\* The watched pin up to the next sample: dt passes, then the pin moves.
Wire(r, b, dt, move) ==
    LET toggle == move # "stay"
        start == move = "bounce"
        span == SpanCap(r.span + dt)
        fresh == IF start /\ AtRest(b, r.level)
                 THEN [r EXCEPT !.n = 1, !.span = 0, !.edges = 0]
                 ELSE [r EXCEPT !.n = 0, !.span = 0, !.edges = 0]
        burst == IF toggle
                 THEN IF r.n \in {1, 2} /\ span <= BurstSpan
                      THEN [r EXCEPT !.n = @ + 1, !.span = span]
                      ELSE fresh
                 ELSE IF r.n \in {1, 2} /\ span > BurstSpan
                      THEN [r EXCEPT !.n = 0, !.span = 0, !.edges = 0]
                      ELSE [r EXCEPT !.span = IF r.n = 0 THEN 0 ELSE span]
    IN  IF toggle
        THEN [burst EXCEPT !.level = ~r.level, !.held = 0, !.edged = FALSE,
                           !.glitched = r.edged /\ Cap(r.held + dt) < T_DEBOUNCE]
        ELSE [burst EXCEPT !.held = Cap(r.held + dt), !.glitched = FALSE]

\* The watched pin after its debouncer's update.
Sampled(r, b) ==
    IF b.changed
    THEN [r EXCEPT !.edged = TRUE,
                   !.edges = IF r.n > 0 /\ @ < 3 THEN @ + 1 ELSE @]
    ELSE r

\* What the watched pin does while loop() is blocked for busy milliseconds:
\* nothing; anything; anything and then a whole burst; the rest of a burst
\* that had begun; anything and then the first k transitions of a burst,
\* right before the block ends.  A burst begins with the button in the state
\* its debouncer reports.
Outcomes ==
    [kind : {"quiet", "rest"}, level : {TRUE}, held : {0}, k : {1}]
    \cup [kind : {"any"}, level : BOOLEAN, held : TickTimes, k : {1}]
    \cup [kind : {"burst"}, level : {TRUE}, held : TickTimes, k : {1}]
    \cup [kind : {"onset"}, level : {TRUE}, held : {0}, k : {1, 2}]

Block(r, b, busy, o) ==
    LET reverted == r.edged /\ r.held < T_DEBOUNCE
        off == [r EXCEPT !.n = 0, !.span = 0, !.edges = 0]
    IN  IF o.kind = "rest" /\ r.n \in {1, 2} /\ r.span <= BurstSpan
        THEN [r EXCEPT !.level = Toggled(r.level, 3 - r.n), !.held = T_DEBOUNCE,
                       !.edged = FALSE, !.glitched = reverted,
                       !.n = 3, !.span = SpanCap(BurstSpan + 1)]
        ELSE IF o.kind = "burst"
        THEN [off EXCEPT !.level = ~b.debounced, !.held = o.held,
                         !.edged = FALSE, !.glitched = reverted,
                         !.n = 3]
        ELSE IF o.kind = "onset"
        THEN [off EXCEPT !.level = Toggled(b.debounced, o.k), !.held = 0,
                         !.edged = FALSE, !.glitched = reverted,
                         !.n = o.k]
        ELSE IF o.kind = "any"
        THEN [off EXCEPT !.level = o.level, !.held = o.held,
                         !.edged = FALSE, !.glitched = reverted]
        ELSE [(IF r.n = 3 THEN r ELSE off) EXCEPT !.held = Cap(r.held + busy),
                                                  !.glitched = FALSE]

\* The watched pin when the iteration ends.
Blocked(r, b, busy) ==
    IF busy = 0 THEN {r} ELSE {Block(r, b, busy, o) : o \in Outcomes}

InitPins ==
    /\ pc = "boot"
    /\ eeprom \in TalkBytes
    /\ sequence = 0
    /\ p2t_button = BounceNew
    /\ conf_button = BounceNew
    /\ kb = KbIdle
    /\ calls = << >>
    /\ reports = << >>
    /\ last = [op |-> "init", seq0 |-> 0, ee0 |-> eeprom, warm |-> FALSE, nocase |-> FALSE]
    /\ adv_hist = << >>
    /\ talk_prev = NoTalk
    /\ \E w \in {"p2t", "conf"}, level \in BOOLEAN :
          raw = [RawOff EXCEPT !.watch = w, !.level = level, !.held = T_DEBOUNCE]

\* setup() attaches the watched button at the level its pin has.
PinsSetup(other) ==
    /\ Setup(Watched(raw.watch, raw.level, other), Watched(raw.watch, other, raw.level))
    /\ UNCHANGED <<talk_prev, raw>>

PinsLoop(other, dt, move) ==
    /\ \E w \in {Wire(raw, Watched(raw.watch, p2t_button, conf_button), dt, move)} :
          /\ Loop(Watched(raw.watch, w.level, other), Watched(raw.watch, other, w.level), dt)
          /\ \E b \in {Watched(raw.watch, p2t_button', conf_button')} :
                raw' \in Blocked(Sampled(w, b), b, Delayed(calls'))
    /\ UNCHANGED talk_prev

\* While the board is without power the pin does anything.
PinsPowerCycle(level) ==
    /\ PowerCycle
    /\ raw' = [RawOff EXCEPT !.watch = raw.watch, !.level = level, !.held = T_DEBOUNCE]
    /\ UNCHANGED talk_prev

NextPins ==
    \/ \E other \in BOOLEAN : PinsSetup(other)
    \/ \E other \in BOOLEAN, dt \in DenseTimes, move \in Moves : PinsLoop(other, dt, move)
    \/ \E level \in BOOLEAN : PinsPowerCycle(level)

SpecPins == InitPins /\ [][NextPins]_vars

\* The watched button's debouncer reported an edge in the last iteration.
WatchedEdge ==
    last.op = "tick" /\ Watched(raw.watch, p2t_button, conf_button).changed

(* C13: debounce rejection.  For either button, a transition of the raw    *)
(* pin that is reverted before the pin has been stable for T_DEBOUNCE has  *)
(* produced no edge of the button's debouncer: no step reverts such a      *)
(* transition after an edge was reported for it.                           *)
C13_DebounceRejection == ~raw.glitched

====
